---- MODULE Spec2Model ----
(***************************************************************************)
(* Model of precompiles/utils/src/data/xcm.rs: the EvmData encoding of the *)
(* XCM types NetworkId, Junction, Junctions and MultiLocation.             *)
(*                                                                         *)
(* Bytes are naturals 0..255, buffers are sequences of bytes.  A value of  *)
(* u32 / u64 / u128 is a natural number; the model only draws numbers      *)
(* below 2^31 (the integer range of TLC), the byte conversions are         *)
(* computed digit by digit as to_be_bytes / from_be_bytes do.              *)
(***************************************************************************)
EXTENDS Integers, Sequences, FiniteSets

VARIABLES op, kind, subject, writer, input, result, panicked

vars == <<op, kind, subject, writer, input, result, panicked>>

(***************************************************************************)
(* Bounds of the domain types (xcm::latest) and of the model.              *)
(***************************************************************************)
\* capacity of NetworkId::Named's WeakBoundedVec
B_name == 2
\* capacity of Junction::GeneralKey's WeakBoundedVec
B_key == 2
\* capacity of Junctions (the largest Xn variant)
D == 2
\* how many bytes past the last consumed field the raw inputs carry
MaxExtra == 2
\* how many junctions past the capacity the raw inputs carry
MaxOver == 2

(***************************************************************************)
(* Results: EvmResult<T> is Ok(value) or Err(revert(message)).  A read of  *)
(* a reader also carries the reader advanced past what was read.           *)
(***************************************************************************)
Ok(v) == [ok |-> TRUE, val |-> v]

revert(msg) == [ok |-> FALSE, err |-> msg]

\* the ? operator: the error returns at once, the value goes on
Try(r, then(_)) == IF r.ok THEN then(r) ELSE r

\* .map_err(|_| revert(msg))
map_err(r, msg) == IF r.ok THEN r ELSE revert(msg)

\* the revert messages, under the names of the failures they report
EmptyInput == "Junctions cannot be empty"

UnknownNetworkIdTag == "Non-valid Network Id"

UnknownJunctionTag == "No selector for this"

NamedTooLong == "Named Network Id name too long."

GeneralKeyTooLong == "Junction GeneralKey too long."

JunctionsOverflow == "overflow when reading junctions"

UnderlyingReaderError == "tried to parse raw bytes out of bounds"

NoResult == [ok |-> FALSE, err |-> "not run"]

NoValue == [variant |-> "none"]

(***************************************************************************)
(* The generic reader / writer primitives the codec is built on.           *)
(***************************************************************************)
EvmDataReader_new(bytes) == [input |-> bytes, cursor |-> 0]

\* read_raw_bytes(len): the next len bytes, or a revert when fewer remain
read_raw_bytes(reader, len) ==
    IF reader.cursor + len > Len(reader.input)
    THEN revert(UnderlyingReaderError)
    ELSE [ok |-> TRUE,
          val |-> SubSeq(reader.input, reader.cursor + 1, reader.cursor + len),
          reader |-> [reader EXCEPT !.cursor = @ + len]]

\* read_till_end(): every byte from the cursor to the end of the input
read_till_end(reader) == read_raw_bytes(reader, Len(reader.input) - reader.cursor)

\* reader.read::<Bytes>(): a length-framed byte string
Bytes_read(reader) ==
    Try(read_raw_bytes(reader, 1), LAMBDA len : read_raw_bytes(len.reader, len.val[1]))

\* EvmData::write(writer, Bytes): length, then the raw bytes
Bytes_write(w, bytes) == w \o <<Len(bytes)>> \o bytes

\* reader.read::<u8>()
u8_read(reader) ==
    Try(read_raw_bytes(reader, 1), LAMBDA b : [b EXCEPT !.val = b.val[1]])

u8_write(w, v) == w \o <<v>>

\* WeakBoundedVec::try_from(vec): Err(()) when the vec is longer than the bound
WeakBoundedVec_try_from(vec, bound) ==
    IF Len(vec) <= bound THEN Ok(vec) ELSE [ok |-> FALSE, err |-> "()"]

\* Junctions::push: Err(item) when the value already holds D junctions
Junctions_push(junctions, item) ==
    IF Len(junctions.items) >= D
    THEN [ok |-> FALSE, err |-> "()"]
    ELSE Ok([items |-> Append(junctions.items, item)])

Here == [items |-> <<>>]

RECURSIVE to_be_bytes(_, _)
\* the width big-endian bytes of n
to_be_bytes(n, width) ==
    IF width = 0 THEN <<>>
    ELSE to_be_bytes(n \div 256, width - 1) \o <<n % 256>>

RECURSIVE from_be_bytes(_)
\* the number whose big-endian bytes are data
from_be_bytes(data) ==
    IF data = <<>> THEN 0
    ELSE 256 * from_be_bytes(SubSeq(data, 1, Len(data) - 1)) + data[Len(data)]

(***************************************************************************)
(* NetworkId                                                               *)
(***************************************************************************)
Any == [variant |-> "Any"]

Named(name) == [variant |-> "Named", name |-> name]

Polkadot == [variant |-> "Polkadot"]

Kusama == [variant |-> "Kusama"]

\* faulty variant: the name written with a length in front of it
network_id_to_bytes_framed(network_id) ==
    CASE network_id.variant = "Any" -> <<0>>
      [] network_id.variant = "Named" ->
            <<1, Len(network_id.name)>> \o network_id.name
      [] network_id.variant = "Polkadot" -> <<2>>
      [] network_id.variant = "Kusama" -> <<3>>

network_id_to_bytes(network_id) ==
    CASE network_id.variant = "Any" -> <<0>>
      [] network_id.variant = "Named" -> <<1>> \o network_id.name
      [] network_id.variant = "Polkadot" -> <<2>>
      [] network_id.variant = "Kusama" -> <<3>>

\* network_id_from_bytes after the emptiness check: the selector and the match
network_id_match(encoded_bytes) ==
         Try(read_raw_bytes(EvmDataReader_new(encoded_bytes), 1),
             LAMBDA network_selector :
        CASE network_selector.val[1] = 0 -> Ok(Any)
          [] network_selector.val[1] = 1 ->
                Try(read_till_end(network_selector.reader), LAMBDA rest :
                Try(map_err(WeakBoundedVec_try_from(rest.val, B_name), NamedTooLong),
                    LAMBDA name :
                Ok(Named(name.val))))
          [] network_selector.val[1] = 2 -> Ok(Polkadot)
          [] network_selector.val[1] = 3 -> Ok(Kusama)
          [] OTHER -> revert(UnknownNetworkIdTag))

\* faulty variant: the emptiness check left out
network_id_from_bytes_unchecked(encoded_bytes) == network_id_match(encoded_bytes)

\* faulty variant: the name taken whatever its length (WeakBoundedVec::force_from)
network_id_from_bytes_forced(encoded_bytes) ==
    IF encoded_bytes = <<>> THEN revert(EmptyInput)
    ELSE IF encoded_bytes[1] = 1 THEN Ok(Named(Tail(encoded_bytes)))
    ELSE network_id_match(encoded_bytes)

network_id_from_bytes(encoded_bytes) ==
    IF encoded_bytes = <<>> THEN revert(EmptyInput)
    ELSE network_id_match(encoded_bytes)

(***************************************************************************)
(* Junction                                                                *)
(***************************************************************************)
Parachain(id) == [variant |-> "Parachain", id |-> id]

AccountId32(network, id) == [variant |-> "AccountId32", network |-> network, id |-> id]

AccountIndex64(network, index) ==
    [variant |-> "AccountIndex64", network |-> network, index |-> index]

AccountKey20(network, key) == [variant |-> "AccountKey20", network |-> network, key |-> key]

PalletInstance(instance) == [variant |-> "PalletInstance", instance |-> instance]

GeneralIndex(id) == [variant |-> "GeneralIndex", id |-> id]

GeneralKey(key) == [variant |-> "GeneralKey", key |-> key]

OnlyChild == [variant |-> "OnlyChild"]

Plurality(id, part) == [variant |-> "Plurality", id |-> id, part |-> part]

\* Junction::read after the emptiness check: the selector and the match
Junction_match(junction_bytes) ==
         Try(read_raw_bytes(EvmDataReader_new(junction_bytes), 1),
             LAMBDA enum_selector :
        CASE enum_selector.val[1] = 0 ->
                Try(read_raw_bytes(enum_selector.reader, 4), LAMBDA data :
                Ok(Parachain(from_be_bytes(data.val))))
          [] enum_selector.val[1] = 1 ->
                Try(read_raw_bytes(enum_selector.reader, 32), LAMBDA account :
                Try(read_till_end(account.reader), LAMBDA network :
                Try(network_id_from_bytes(network.val), LAMBDA network_id :
                Ok(AccountId32(network_id.val, account.val)))))
          [] enum_selector.val[1] = 2 ->
                Try(read_raw_bytes(enum_selector.reader, 8), LAMBDA index :
                Try(read_till_end(index.reader), LAMBDA network :
                Try(network_id_from_bytes(network.val), LAMBDA network_id :
                Ok(AccountIndex64(network_id.val, from_be_bytes(index.val))))))
          [] enum_selector.val[1] = 3 ->
                Try(read_raw_bytes(enum_selector.reader, 20), LAMBDA account :
                Try(read_till_end(account.reader), LAMBDA network :
                Try(network_id_from_bytes(network.val), LAMBDA network_id :
                Ok(AccountKey20(network_id.val, account.val)))))
          [] enum_selector.val[1] = 4 ->
                Try(read_raw_bytes(enum_selector.reader, 1), LAMBDA instance :
                Ok(PalletInstance(instance.val[1])))
          [] enum_selector.val[1] = 5 ->
                Try(read_raw_bytes(enum_selector.reader, 16), LAMBDA general_index :
                Ok(GeneralIndex(from_be_bytes(general_index.val))))
          [] enum_selector.val[1] = 6 ->
                Try(read_till_end(enum_selector.reader), LAMBDA rest :
                Try(map_err(WeakBoundedVec_try_from(rest.val, B_key), GeneralKeyTooLong),
                    LAMBDA key :
                Ok(GeneralKey(key.val))))
          [] enum_selector.val[1] = 7 -> Ok(OnlyChild)
          [] OTHER -> revert(UnknownJunctionTag))

\* faulty variant: the last arm of the match gives a junction instead of a revert
Junction_from_bytes_default(junction_bytes) ==
    IF junction_bytes = <<>> THEN revert(EmptyInput)
    ELSE IF junction_bytes[1] > 7 THEN Ok(OnlyChild)
    ELSE Junction_match(junction_bytes)

\* faulty variant: a Parachain id copied from the bytes there are into the zeroed array
Junction_from_bytes_padded(junction_bytes) ==
    IF junction_bytes = <<>> THEN revert(EmptyInput)
    ELSE IF junction_bytes[1] = 0 /\ Len(junction_bytes) < 5
         THEN Ok(Parachain(from_be_bytes(
                  Tail(junction_bytes) \o [i \in 1..(5 - Len(junction_bytes)) |-> 0])))
    ELSE Junction_match(junction_bytes)

\* faulty variant: bytes left over after the last field are an error
Junction_from_bytes_strict(junction_bytes) ==
    IF junction_bytes = <<>> THEN revert(EmptyInput)
    ELSE IF \/ junction_bytes[1] = 0 /\ Len(junction_bytes) > 5
            \/ junction_bytes[1] = 4 /\ Len(junction_bytes) > 2
            \/ junction_bytes[1] = 5 /\ Len(junction_bytes) > 17
            \/ junction_bytes[1] = 7 /\ Len(junction_bytes) > 1
         THEN revert("trailing bytes")
    ELSE Junction_match(junction_bytes)

\* Junction::read once the dynamic-byte field is taken from the reader
Junction_from_bytes(junction_bytes) ==
    IF junction_bytes = <<>> THEN revert(EmptyInput)
    ELSE Junction_match(junction_bytes)

\* Junction::read: one dynamic-byte field, then its content; the result
\* carries the reader advanced past the field
Junction_read(reader) ==
    Try(Bytes_read(reader), LAMBDA junction :
    Try(Junction_from_bytes(junction.val), LAMBDA decoded :
    [ok |-> TRUE, val |-> decoded.val, reader |-> junction.reader]))

\* faulty variant: the NetworkId put before the account id, the integers little-endian
Junction_encoded_swapped(value) ==
    CASE value.variant = "Parachain" ->
            [panic |-> FALSE,
             data |-> <<0>> \o [i \in 1..4 |-> to_be_bytes(value.id, 4)[5 - i]]]
      [] value.variant = "AccountId32" ->
            [panic |-> FALSE,
             data |-> <<1>> \o network_id_to_bytes(value.network) \o value.id]
      [] value.variant = "AccountIndex64" ->
            [panic |-> FALSE,
             data |-> <<2>> \o to_be_bytes(value.index, 8)
                           \o network_id_to_bytes(value.network)]
      [] value.variant = "AccountKey20" ->
            [panic |-> FALSE,
             data |-> <<3>> \o value.key \o network_id_to_bytes(value.network)]
      [] value.variant = "PalletInstance" ->
            [panic |-> FALSE, data |-> <<4>> \o to_be_bytes(value.instance, 1)]
      [] value.variant = "GeneralIndex" ->
            [panic |-> FALSE, data |-> <<5>> \o to_be_bytes(value.id, 16)]
      [] value.variant = "GeneralKey" ->
            [panic |-> FALSE, data |-> <<6>> \o value.key]
      [] value.variant = "OnlyChild" ->
            [panic |-> FALSE, data |-> <<7>>]
      [] OTHER -> [panic |-> TRUE, data |-> <<>>]

\* the scratch buffer `encoded` Junction::write builds; unreachable!() panics
Junction_encoded(value) ==
    CASE value.variant = "Parachain" ->
            [panic |-> FALSE, data |-> <<0>> \o to_be_bytes(value.id, 4)]
      [] value.variant = "AccountId32" ->
            [panic |-> FALSE,
             data |-> <<1>> \o value.id \o network_id_to_bytes(value.network)]
      [] value.variant = "AccountIndex64" ->
            [panic |-> FALSE,
             data |-> <<2>> \o to_be_bytes(value.index, 8)
                           \o network_id_to_bytes(value.network)]
      [] value.variant = "AccountKey20" ->
            [panic |-> FALSE,
             data |-> <<3>> \o value.key \o network_id_to_bytes(value.network)]
      [] value.variant = "PalletInstance" ->
            [panic |-> FALSE, data |-> <<4>> \o to_be_bytes(value.instance, 1)]
      [] value.variant = "GeneralIndex" ->
            [panic |-> FALSE, data |-> <<5>> \o to_be_bytes(value.id, 16)]
      [] value.variant = "GeneralKey" ->
            [panic |-> FALSE, data |-> <<6>> \o value.key]
      [] value.variant = "OnlyChild" ->
            [panic |-> FALSE, data |-> <<7>>]
      [] OTHER -> [panic |-> TRUE, data |-> <<>>]

\* a write that does not panic goes on; a panic leaves the writer w as it was
Unless(out, w, then(_)) == IF out.panic THEN [panic |-> TRUE, data |-> w] ELSE then(out)

\* Junction::write: the scratch buffer written as one dynamic-byte field
Junction_write(w, value) ==
    Unless(Junction_encoded(value), w, LAMBDA encoded :
    [panic |-> FALSE, data |-> Bytes_write(w, encoded.data)])

(***************************************************************************)
(* Vec<Junction>, Junctions, MultiLocation                                 *)
(***************************************************************************)
RECURSIVE Vec_read_items(_, _, _)
\* the remaining n elements of a Vec<Junction>, each read by Junction::read
Vec_read_items(reader, n, acc) ==
    IF n = 0 THEN [ok |-> TRUE, val |-> acc, reader |-> reader]
    ELSE Try(Junction_read(reader), LAMBDA item :
         Vec_read_items(item.reader, n - 1, Append(acc, item.val)))

\* reader.read::<Vec<Junction>>(): the count, then the elements
Vec_read(reader) ==
    Try(u8_read(reader), LAMBDA count : Vec_read_items(count.reader, count.val, <<>>))

RECURSIVE Vec_write_items(_, _)
\* the elements of a Vec<Junction>, each written by Junction::write
Vec_write_items(w, items) ==
    IF items = <<>> THEN [panic |-> FALSE, data |-> w]
    ELSE Unless(Junction_write(w, Head(items)), w, LAMBDA first :
         Vec_write_items(first.data, Tail(items)))

\* EvmData::write(writer, Vec<Junction>): built aside, appended when complete
Vec_write(w, items) ==
    Unless(Vec_write_items(<<Len(items)>>, items), w, LAMBDA inner_writer :
    [panic |-> FALSE, data |-> w \o inner_writer.data])

RECURSIVE Junctions_push_all_ignoring(_, _)
\* faulty variant: the result of push dropped, the junctions past the capacity lost
Junctions_push_all_ignoring(junctions, items) ==
    IF items = <<>> THEN Ok(junctions)
    ELSE IF Junctions_push(junctions, Head(items)).ok
         THEN Junctions_push_all_ignoring(Junctions_push(junctions, Head(items)).val,
                                          Tail(items))
         ELSE Junctions_push_all_ignoring(junctions, Tail(items))

RECURSIVE Junctions_push_all(_, _)
\* the for loop of Junctions::read
Junctions_push_all(junctions, items) ==
    IF items = <<>> THEN Ok(junctions)
    ELSE Try(map_err(Junctions_push(junctions, Head(items)), JunctionsOverflow),
             LAMBDA pushed :
         Junctions_push_all(pushed.val, Tail(items)))

Junctions_read(reader) ==
    Try(Vec_read(reader), LAMBDA junctions_bytes :
    Try(Junctions_push_all(Here, junctions_bytes.val), LAMBDA junctions :
    [ok |-> TRUE, val |-> junctions.val, reader |-> junctions_bytes.reader]))

\* faulty variant: the junctions collected from the last to the first
Junctions_write_reversed(w, value) ==
    Vec_write(w, [i \in 1..Len(value.items) |-> value.items[Len(value.items) + 1 - i]])

Junctions_write(w, value) == Vec_write(w, value.items)

\* reader.read::<(u8, Junctions)>(): the fields in declared order
Tuple_read(reader) ==
    Try(u8_read(reader), LAMBDA first :
    Try(Junctions_read(first.reader), LAMBDA second :
    [ok |-> TRUE, val |-> <<first.val, second.val>>, reader |-> second.reader]))

\* EvmData::write(writer, (u8, Junctions)): built aside, appended when complete
Tuple_write(w, pair) ==
    Unless(Junctions_write(u8_write(<<>>, pair[1]), pair[2]), w, LAMBDA inner_writer :
    [panic |-> FALSE, data |-> w \o inner_writer.data])

MultiLocation_read(reader) ==
    Try(Tuple_read(reader), LAMBDA pair :
    [ok |-> TRUE,
     val |-> [parents |-> pair.val[1], interior |-> pair.val[2]],
     reader |-> pair.reader])

MultiLocation_write(w, value) == Tuple_write(w, <<value.parents, value.interior>>)

(***************************************************************************)
(* Inputs.                                                                 *)
(***************************************************************************)
\* byte strings of length 0..n over the bytes of alphabet
BytesUpTo(n, alphabet) == UNION {[1..k -> alphabet] : k \in 0..n}

\* sequences of length 0..n of elements of S
SeqsUpTo(n, S) == UNION {[1..k -> S] : k \in 0..n}

NameBytes == {0, 1, 255}

NetworkIds == {Any, Polkadot, Kusama} \cup {Named(name) : name \in BytesUpTo(B_name, NameBytes)}

Ids32 == {[i \in 1..32 |-> 0], [i \in 1..32 |-> 8 * i - 1]}

Keys20 == {[i \in 1..20 |-> 0], [i \in 1..20 |-> 255 - i]}

U32s == {0, 1, 2000, 16909060, 2147483647}

U64s == {0, 258, 2147483647}

U128s == {0, 65536, 2147483646}

U8s == {0, 7, 255}

SupportedJunctions ==
    {Parachain(id) : id \in U32s}
    \cup {AccountId32(n, id) : n \in NetworkIds, id \in Ids32}
    \cup {AccountIndex64(n, index) : n \in NetworkIds, index \in U64s}
    \cup {AccountKey20(n, key) : n \in NetworkIds, key \in Keys20}
    \cup {PalletInstance(instance) : instance \in U8s}
    \cup {GeneralIndex(id) : id \in U128s}
    \cup {GeneralKey(key) : key \in BytesUpTo(B_key, NameBytes)}
    \cup {OnlyChild}

ThePlurality == Plurality("Unit", "Voice")

AllJunctions == SupportedJunctions \cup {ThePlurality}

\* the junctions the Junctions and MultiLocation values are built from
PathJunctions ==
    {Parachain(2000), AccountKey20(Named(<<1>>), [i \in 1..20 |-> 255 - i]),
     GeneralKey(<<>>), OnlyChild, ThePlurality}

AllJunctionsValues == {[items |-> items] : items \in SeqsUpTo(D, PathJunctions)}

AllMultiLocations == {[parents |-> p, interior |-> js] : p \in U8s, js \in AllJunctionsValues}

\* bytes that follow the last field a decoder consumes
Extras == BytesUpTo(MaxExtra, {0, 9})

\* raw NetworkId buffers: empty, or any tag followed by 0..B_name+MaxExtra bytes
RawNetworkIds ==
    {<<>>} \cup {<<tag>> \o rest : tag \in {0, 1, 2, 3, 4, 8, 255},
                                 rest \in BytesUpTo(B_name + MaxExtra, {0, 9})}

\* the prefixes of a fixed field that are too short
ShortOf(field) == {SubSeq(field, 1, k) : k \in 0..(Len(field) - 1)}

\* raw Junction contents: empty, every tag, short and full fixed fields, extra bytes
RawJunctions ==
    {<<>>}
    \cup {<<0>> \o f : f \in UNION {ShortOf(to_be_bytes(v, 4)) : v \in U32s}}
    \cup {<<0>> \o to_be_bytes(v, 4) \o e : v \in U32s, e \in Extras}
    \cup {<<1>> \o f : f \in UNION {ShortOf(id) : id \in Ids32}}
    \cup {<<1>> \o id \o n : id \in Ids32, n \in RawNetworkIds}
    \cup {<<2>> \o f : f \in UNION {ShortOf(to_be_bytes(v, 8)) : v \in U64s}}
    \cup {<<2>> \o to_be_bytes(v, 8) \o n : v \in U64s, n \in RawNetworkIds}
    \cup {<<3>> \o f : f \in UNION {ShortOf(key) : key \in Keys20}}
    \cup {<<3>> \o key \o n : key \in Keys20, n \in RawNetworkIds}
    \cup {<<4>> \o e : e \in Extras}
    \cup {<<4, v>> \o e : v \in U8s, e \in Extras}
    \cup {<<5>> \o f : f \in UNION {ShortOf(to_be_bytes(v, 16)) : v \in U128s}}
    \cup {<<5>> \o to_be_bytes(v, 16) \o e : v \in U128s, e \in Extras}
    \cup {<<6>> \o key : key \in BytesUpTo(B_key + MaxExtra, {0, 9})}
    \cup {<<tag>> \o e : tag \in {7, 8, 9, 255}, e \in Extras}

\* the contents the raw Junctions and MultiLocation inputs are built from
\* (three valid ones and a Parachain cut short)
RawPathJunctions ==
    {<<0, 0, 0, 7, 208>>, <<3>> \o [i \in 1..20 |-> 255 - i] \o <<1, 1>>,
     <<7>>, <<0, 0, 7>>}

RECURSIVE FrameAll(_)
\* the dynamic-byte fields of the contents, one after the other
FrameAll(contents) ==
    IF contents = <<>> THEN <<>>
    ELSE Bytes_write(<<>>, Head(contents)) \o FrameAll(Tail(contents))

\* raw Junctions buffers: a count and that many fields, up to D + MaxOver of them
RawJunctionsBuffers ==
    {<<Len(contents)>> \o FrameAll(contents) :
        contents \in SeqsUpTo(D + MaxOver, RawPathJunctions)}

RawMultiLocations == {<<p>> \o js : p \in U8s, js \in RawJunctionsBuffers}

\* what a read leaves for the caller: the value or the revert, without the reader
Outcome(r) == IF r.ok THEN Ok(r.val) ELSE revert(r.err)

(***************************************************************************)
(* The state: the last call, what it was given and what it gave.           *)
(*   op        the function called last                                    *)
(*   kind      the type it was called on                                   *)
(*   subject   the value given to the last write (NoValue after a raw read)*)
(*   writer    the bytes the last write produced                           *)
(*   input     the buffer given to the last read                           *)
(*   result    the EvmResult the last read returned                        *)
(*   panicked  the call ended in a panic                                   *)
(***************************************************************************)
Init ==
    /\ op = "new"
    /\ kind = "none"
    /\ subject = NoValue
    /\ writer = <<>>
    /\ input = <<>>
    /\ result = NoResult
    /\ panicked = FALSE

\* Each behaviour is one use of the codec: a write into a fresh writer, or a
\* read of a raw buffer, and after a write the read of what was written.
\* The codecs keep nothing between calls.
\* a write into a fresh writer; a panic ends the run
Wrote(k, v, out) ==
    /\ op' = "write"
    /\ kind' = k
    /\ subject' = v
    /\ writer' = out.data
    /\ panicked' = out.panic
    /\ input' = <<>>
    /\ result' = NoResult

\* a read of the bytes the last write produced
ReadBack(k, r) ==
    /\ op' = "read"
    /\ input' = writer
    /\ result' = Outcome(r)
    /\ UNCHANGED <<kind, subject, writer, panicked>>

\* a read of a buffer that came from elsewhere
ReadRaw(k, buffer, r) ==
    /\ op' = "read"
    /\ kind' = k
    /\ subject' = NoValue
    /\ writer' = <<>>
    /\ input' = buffer
    /\ result' = Outcome(r)
    /\ UNCHANGED panicked

WriteNetworkId ==
    /\ op = "new"
    /\ \E n \in NetworkIds :
         Wrote("NetworkId", n, [panic |-> FALSE, data |-> network_id_to_bytes(n)])

ReadNetworkIdBack ==
    /\ ~panicked /\ op = "write" /\ kind = "NetworkId"
    /\ ReadBack("NetworkId", network_id_from_bytes(writer))

ReadNetworkIdRaw ==
    /\ op = "new"
    /\ \E b \in RawNetworkIds : ReadRaw("NetworkId", b, network_id_from_bytes(b))

WriteJunction ==
    /\ op = "new"
    /\ \E j \in AllJunctions : Wrote("Junction", j, Junction_write(<<>>, j))

ReadJunctionBack ==
    /\ ~panicked /\ op = "write" /\ kind = "Junction"
    /\ ReadBack("Junction", Junction_read(EvmDataReader_new(writer)))

ReadJunctionRaw ==
    /\ op = "new"
    /\ \E b \in RawJunctions :
         LET field == Bytes_write(<<>>, b)
         IN  ReadRaw("Junction", field, Junction_read(EvmDataReader_new(field)))

WriteJunctions ==
    /\ op = "new"
    /\ \E js \in AllJunctionsValues : Wrote("Junctions", js, Junctions_write(<<>>, js))

ReadJunctionsBack ==
    /\ ~panicked /\ op = "write" /\ kind = "Junctions"
    /\ ReadBack("Junctions", Junctions_read(EvmDataReader_new(writer)))

ReadJunctionsRaw ==
    /\ op = "new"
    /\ \E b \in RawJunctionsBuffers :
         ReadRaw("Junctions", b, Junctions_read(EvmDataReader_new(b)))

WriteMultiLocation ==
    /\ op = "new"
    /\ \E m \in AllMultiLocations :
         Wrote("MultiLocation", m, MultiLocation_write(<<>>, m))

ReadMultiLocationBack ==
    /\ ~panicked /\ op = "write" /\ kind = "MultiLocation"
    /\ ReadBack("MultiLocation", MultiLocation_read(EvmDataReader_new(writer)))

ReadMultiLocationRaw ==
    /\ op = "new"
    /\ \E b \in RawMultiLocations :
         ReadRaw("MultiLocation", b, MultiLocation_read(EvmDataReader_new(b)))

Next ==
    \/ WriteNetworkId
    \/ ReadNetworkIdBack
    \/ ReadNetworkIdRaw
    \/ WriteJunction
    \/ ReadJunctionBack
    \/ ReadJunctionRaw
    \/ WriteJunctions
    \/ ReadJunctionsBack
    \/ ReadJunctionsRaw
    \/ WriteMultiLocation
    \/ ReadMultiLocationBack
    \/ ReadMultiLocationRaw

Spec == Init /\ [][Next]_vars

TypeOK ==
    /\ op \in {"new", "write", "read"}
    /\ kind \in {"none", "NetworkId", "Junction", "Junctions", "MultiLocation"}
    /\ panicked \in BOOLEAN
    /\ \A i \in 1..Len(writer) : writer[i] \in 0..255
    /\ \A i \in 1..Len(input) : input[i] \in 0..255

(***************************************************************************)
(* The properties.                                                         *)
(***************************************************************************)
\* the last call read back what a write of `k` produced
ReadBackOf(k) == op = "read" /\ kind = k /\ subject # NoValue

\* the last call read a raw buffer as a `k`
ReadRawOf(k) == op = "read" /\ kind = k /\ subject = NoValue

\* the content of the dynamic-byte field a raw Junction read was given
Content == SubSeq(input, 2, Len(input))

\* C1: decoding what network_id_to_bytes produced gives back the NetworkId
\* (names of length 0..B_name), and Junction::read of the field Junction::write
\* produced gives back the junction, for every supported variant, every
\* NetworkId in the account-bearing ones and every GeneralKey of length 0..B_key.
C1_RoundTrip ==
    /\ ReadBackOf("NetworkId") => result = Ok(subject)
    /\ ReadBackOf("Junction") => result = Ok(subject)

C1_Witness ==
    /\ ReadBackOf("Junction")
    /\ subject.variant = "AccountId32"
    /\ subject.network.variant = "Named"
    /\ Len(subject.network.name) = B_name
    /\ result = Ok(subject)

\* C2: MultiLocation::read of what MultiLocation::write produced gives back the
\* same parents and the same junctions in the same order, none dropped,
\* duplicated or moved; Junctions alone round-trips the same way.
C2_RoundTrip ==
    /\ ReadBackOf("MultiLocation") => result = Ok(subject)
    /\ ReadBackOf("MultiLocation") =>
          /\ result.val.parents = subject.parents
          /\ Len(result.val.interior.items) = Len(subject.interior.items)
          /\ \A i \in 1..Len(subject.interior.items) :
                result.val.interior.items[i] = subject.interior.items[i]
    /\ ReadBackOf("Junctions") => result = Ok(subject)

C2_Witness ==
    /\ ReadBackOf("MultiLocation")
    /\ subject.parents = 255
    /\ Len(subject.interior.items) = D
    /\ subject.interior.items[1] # subject.interior.items[D]
    /\ result = Ok(subject)

\* the junctions of the value given to the last write
SubjectJunctions ==
    CASE kind = "Junction" -> <<subject>>
      [] kind = "Junctions" -> subject.items
      [] kind = "MultiLocation" -> subject.interior.items
      [] OTHER -> <<>>

\* the last call was a write of a value that holds a Plurality junction
WrotePlurality ==
    /\ op = "write"
    /\ \E i \in 1..Len(SubjectJunctions) : SubjectJunctions[i].variant = "Plurality"

\* C3: encoding a Plurality junction, alone or inside a Junctions or a
\* MultiLocation, ends in a failure the caller observes, not in an abort of
\* the process, and writes no bytes.
C3_PluralityIsReported == WrotePlurality => (~panicked /\ writer = <<>>)

\* what the code does instead: the call panics (and writes nothing)
C3_PluralityPanics == WrotePlurality => (panicked /\ writer = <<>>)

\* the width of the fixed field that follows a junction tag
FixedWidth(tag) ==
    CASE tag = 0 -> 4
      [] tag = 1 -> 32
      [] tag = 2 -> 8
      [] tag = 3 -> 20
      [] tag = 4 -> 1
      [] tag = 5 -> 16
      [] OTHER -> 0

\* C4: network_id_from_bytes of an empty buffer and Junction::read of an empty
\* dynamic-byte field fail with EmptyInput, and so does Junction::read of an
\* account-bearing junction (tag 1, 2, 3) whose fixed field is whole and is
\* followed by no byte for the NetworkId.
C4_EmptyInput ==
    /\ (ReadRawOf("NetworkId") /\ input = <<>>) => result = revert(EmptyInput)
    /\ (ReadRawOf("Junction") /\ Content = <<>>) => result = revert(EmptyInput)
    /\ (/\ ReadRawOf("Junction")
        /\ Content # <<>>
        /\ Content[1] \in {1, 2, 3}
        /\ Len(Content) = 1 + FixedWidth(Content[1])) => result = revert(EmptyInput)

C4_Witness ==
    /\ ReadRawOf("Junction")
    /\ Len(Content) = 9
    /\ Content[1] = 2
    /\ result = revert(EmptyInput)

\* C5: on a non-empty buffer network_id_from_bytes fails with UnknownVariantTag
\* when the first byte is not 0..3, and Junction::read fails with
\* UnknownVariantTag when the first byte of the field is not 0..7 (8, the tag
\* Plurality would have, included), whatever follows the tag.
C5_UnknownVariantTag ==
    /\ (ReadRawOf("NetworkId") /\ input # <<>> /\ input[1] \notin 0..3)
          => result = revert(UnknownNetworkIdTag)
    /\ (ReadRawOf("Junction") /\ Content # <<>> /\ Content[1] \notin 0..7)
          => result = revert(UnknownJunctionTag)

C5_Witness ==
    /\ ReadRawOf("Junction")
    /\ Len(Content) > 1
    /\ Content[1] = 8
    /\ result = revert(UnknownJunctionTag)

\* C6: a tag-1 NetworkId buffer decodes to Named(all the bytes after the tag)
\* exactly when there are at most B_name of them and fails with LengthOverflow
\* otherwise; a tag-6 junction decodes to GeneralKey(all the bytes after the
\* tag) exactly when there are at most B_key of them and fails with
\* LengthOverflow otherwise.
C6_LengthBound ==
    /\ (ReadRawOf("NetworkId") /\ input # <<>> /\ input[1] = 1) =>
          IF Len(input) - 1 <= B_name
          THEN result = Ok(Named(Tail(input)))
          ELSE result = revert(NamedTooLong)
    /\ (ReadRawOf("Junction") /\ Content # <<>> /\ Content[1] = 6) =>
          IF Len(Content) - 1 <= B_key
          THEN result = Ok(GeneralKey(Tail(Content)))
          ELSE result = revert(GeneralKeyTooLong)

C6_Witness ==
    /\ ReadRawOf("NetworkId")
    /\ Len(input) = B_name + 2
    /\ input[1] = 1
    /\ result = revert(NamedTooLong)

RECURSIVE FieldsOf(_)
\* the contents of the dynamic-byte fields a buffer is made of
FieldsOf(buf) ==
    IF buf = <<>> THEN <<>>
    ELSE <<SubSeq(buf, 2, 1 + buf[1])>> \o FieldsOf(SubSeq(buf, 2 + buf[1], Len(buf)))

\* the fields of the raw Junctions or MultiLocation buffer the last read was given
InputFields ==
    CASE kind = "Junctions" -> FieldsOf(Tail(input))
      [] kind = "MultiLocation" -> FieldsOf(Tail(Tail(input)))
      [] OTHER -> <<>>

\* C7: Junctions::read of fields that each decode succeeds with the junctions in
\* order when there are at most D of them (none gives Here, D is accepted) and
\* fails with LengthOverflow, with no Junctions value, when there are D + 1 or more.
C7_Capacity ==
    (/\ ReadRawOf("Junctions")
     /\ \A i \in 1..Len(InputFields) : Junction_from_bytes(InputFields[i]).ok) =>
        IF Len(InputFields) <= D
        THEN result = Ok([items |-> [i \in 1..Len(InputFields) |->
                                        Junction_from_bytes(InputFields[i]).val]])
        ELSE result = revert(JunctionsOverflow)

C7_Witness ==
    /\ ReadRawOf("Junctions")
    /\ Len(InputFields) = D + 1
    /\ \A i \in 1..Len(InputFields) : Junction_from_bytes(InputFields[i]).ok
    /\ result = revert(JunctionsOverflow)

\* the tag byte of a junction variant
TagOf(variant) ==
    CASE variant = "Parachain" -> 0
      [] variant = "AccountId32" -> 1
      [] variant = "AccountIndex64" -> 2
      [] variant = "AccountKey20" -> 3
      [] variant = "PalletInstance" -> 4
      [] variant = "GeneralIndex" -> 5
      [] variant = "GeneralKey" -> 6
      [] variant = "OnlyChild" -> 7

\* the tag byte of a NetworkId variant
NetworkTagOf(variant) ==
    CASE variant = "Any" -> 0
      [] variant = "Named" -> 1
      [] variant = "Polkadot" -> 2
      [] variant = "Kusama" -> 3

RECURSIVE BigEndian(_, _)
\* the number a byte string denotes, the most significant byte first
BigEndian(acc, bytes) ==
    IF bytes = <<>> THEN acc ELSE BigEndian(256 * acc + Head(bytes), Tail(bytes))

\* the bytes the NetworkId of an account-bearing junction takes
NetworkLen(j) ==
    IF j.variant \in {"AccountId32", "AccountIndex64", "AccountKey20"}
    THEN 1 + (IF j.network.variant = "Named" THEN Len(j.network.name) ELSE 0)
    ELSE 0

\* the fixed field of the junction j is what follows the tag in content
FixedFieldIs(j, content) ==
    CASE j.variant = "Parachain" -> BigEndian(0, SubSeq(content, 2, 5)) = j.id
      [] j.variant = "AccountId32" -> SubSeq(content, 2, 33) = j.id
      [] j.variant = "AccountIndex64" -> BigEndian(0, SubSeq(content, 2, 9)) = j.index
      [] j.variant = "AccountKey20" -> SubSeq(content, 2, 21) = j.key
      [] j.variant = "PalletInstance" -> content[2] = j.instance
      [] j.variant = "GeneralIndex" -> BigEndian(0, SubSeq(content, 2, 17)) = j.id
      [] j.variant = "GeneralKey" -> Tail(content) = j.key
      [] j.variant = "OnlyChild" -> TRUE

\* the last bytes of content are the NetworkId n: its tag, then the name if Named
NetworkIsLast(n, content, len) ==
    /\ content[Len(content) - len + 1] = NetworkTagOf(n.variant)
    /\ IF n.variant = "Named"
       THEN SubSeq(content, Len(content) - len + 2, Len(content)) = n.name
       ELSE len = 1

\* C8: Junction::write produces one dynamic-byte field whose content is the tag
\* byte, the fixed fields big-endian and, for the three account-bearing variants
\* only, the NetworkId encoding as the last bytes (tag, then the raw name for
\* Named): AccountId32{Polkadot, [0;32]} gives [1] ++ 32 zeros ++ [2], Parachain
\* 5 bytes, PalletInstance 2, GeneralIndex 17, OnlyChild 1; decoding the content
\* gives back the value.
C8_Layout ==
    /\ (op = "write" /\ kind = "NetworkId") =>
          /\ writer[1] = NetworkTagOf(subject.variant)
          /\ Tail(writer) = (IF subject.variant = "Named" THEN subject.name ELSE <<>>)
    /\ (op = "write" /\ kind = "Junction" /\ ~panicked) =>
          LET content == Tail(writer)
              keyLen == IF subject.variant = "GeneralKey" THEN Len(subject.key) ELSE 0
          IN  /\ writer[1] = Len(content)
              /\ content[1] = TagOf(subject.variant)
              /\ Len(content) = 1 + FixedWidth(content[1]) + keyLen + NetworkLen(subject)
              /\ FixedFieldIs(subject, content)
              /\ NetworkLen(subject) > 0 =>
                    NetworkIsLast(subject.network, content, NetworkLen(subject))
              /\ subject = AccountId32(Polkadot, [i \in 1..32 |-> 0]) =>
                    content = <<1>> \o [i \in 1..32 |-> 0] \o <<2>>
              /\ subject = Parachain(2000) => content = <<0, 0, 0, 7, 208>>
              /\ Junction_from_bytes(content) = Ok(subject)

C8_Witness ==
    /\ op = "write"
    /\ kind = "Junction"
    /\ subject = AccountId32(Polkadot, [i \in 1..32 |-> 0])
    /\ Len(writer) = 35
    /\ writer = <<34, 1>> \o [i \in 1..32 |-> 0] \o <<2>>

\* a field that holds a supported tag and less than its fixed field
IsShort(field) ==
    /\ field # <<>>
    /\ field[1] \in 0..5
    /\ Len(field) - 1 < FixedWidth(field[1])

\* C9: Junction::read of a field with a supported tag and fewer bytes after it
\* than the fixed width of the variant fails with the reader's error, no
\* junction is made of the short field, and a Junctions or MultiLocation read
\* that meets such a field fails with the same error and no value.
C9_ShortField ==
    /\ (ReadRawOf("Junction") /\ IsShort(Content)) => result = revert(UnderlyingReaderError)
    /\ (/\ ReadRawOf("Junctions") \/ ReadRawOf("MultiLocation")
        /\ \E i \in 1..Len(InputFields) : IsShort(InputFields[i]))
          => result = revert(UnderlyingReaderError)

C9_Witness ==
    /\ ReadRawOf("MultiLocation")
    /\ Len(InputFields) = 2
    /\ ~IsShort(InputFields[1])
    /\ IsShort(InputFields[2])
    /\ result = revert(UnderlyingReaderError)

\* C10: bytes after the last consumed field are not looked at: a NetworkId
\* buffer of tag 0, 2, 3 and a junction of tag 0, 4, 5, 7 decode to what the tag
\* and the fixed field alone decode to, and an account-bearing junction whose
\* NetworkId bytes are tag 0, 2, 3 and more decodes as if the rest were absent.
C10_TrailingIgnored ==
    /\ (ReadRawOf("NetworkId") /\ input # <<>> /\ input[1] \in {0, 2, 3}) =>
          result = Ok(CASE input[1] = 0 -> Any
                        [] input[1] = 2 -> Polkadot
                        [] input[1] = 3 -> Kusama)
    /\ (/\ ReadRawOf("Junction")
        /\ Content # <<>>
        /\ Content[1] \in {0, 4, 5, 7}
        /\ Len(Content) >= 1 + FixedWidth(Content[1])) =>
          /\ result.ok
          /\ result = Junction_from_bytes(SubSeq(Content, 1, 1 + FixedWidth(Content[1])))
    /\ (/\ ReadRawOf("Junction")
        /\ Content # <<>>
        /\ Content[1] \in {1, 2, 3}
        /\ Len(Content) >= 2 + FixedWidth(Content[1])
        /\ Content[2 + FixedWidth(Content[1])] \in {0, 2, 3}) =>
          /\ result.ok
          /\ result = Junction_from_bytes(SubSeq(Content, 1, 2 + FixedWidth(Content[1])))

\* a buffer with bytes after the last field decodes, and encoding the value
\* does not give the buffer back
C10_Witness ==
    /\ ReadRawOf("Junction")
    /\ Len(Content) > 1
    /\ Content[1] = 7
    /\ result = Ok(OnlyChild)
    /\ Junction_write(<<>>, result.val).data # input

====
